---- MODULE Spec2Model ----
(***************************************************************************)
(* The shift-scheduling CRUD service of src/database/app.py over the       *)
(* SQLite schema of src/database/database.py.                              *)
(*                                                                         *)
(* Every request is served by one worker thread with a connection of its   *)
(* own.  A SELECT reads the committed store; an INSERT takes the store's   *)
(* single write lock and is checked against the schema; commit publishes   *)
(* the row.  Each statement of a handler is one atomic step, so requests   *)
(* interleave between their statements.                                    *)
(*                                                                         *)
(* Strings are sequences of one-character strings.  Free-text Description  *)
(* fields and the store-assigned timestamps influence no decision of the   *)
(* handlers and are left out of the rows.  An Optional[int] is a set of    *)
(* at most one integer: {} is None.                                        *)
(***************************************************************************)
EXTENDS Integers, Sequences, FiniteSets, TLC

\* Rows stored plus create requests in flight.
MaxRows == 3

\* The worker threads that serve requests at the same time.
Procs == {1, 2}

None == {}
Some(v) == {v}

---------------------------------------------------------------------------
\* Pure functions of the handlers.

\* str.strip(): drop leading and trailing whitespace.
RECURSIVE lstrip(_)
lstrip(s) == IF s # <<>> /\ Head(s) = " " THEN lstrip(Tail(s)) ELSE s

RECURSIVE rstrip(_)
rstrip(s) ==
    IF s # <<>> /\ s[Len(s)] = " " THEN rstrip(SubSeq(s, 1, Len(s) - 1)) ELSE s

strip(s) == rstrip(lstrip(s))

\* No "@" in s[i..j].
NoAt(s, i, j) == \A k \in i..j : s[k] # "@"

\* re.match(r"[^@]+@[^@]+\.[^@]+", s): the pattern is anchored at the start
\* of s only; whatever follows the matched prefix is not looked at.
EmailMatch(s) ==
    \E i \in 1..Len(s), j \in 1..Len(s) :
        /\ NoAt(s, 1, i)
        /\ i + 1 <= Len(s) /\ s[i + 1] = "@"
        /\ j >= i + 3
        /\ NoAt(s, i + 2, j - 1)
        /\ s[j] = "."
        /\ j + 1 <= Len(s) /\ s[j + 1] # "@"

\* time.strftime("%H:%M:%S") of a time <<seconds, microseconds>>: the
\* microseconds are not part of the text that is stored and compared.
strftime(t) == t[1]

---------------------------------------------------------------------------
\* The schema: the columns of each table, and its UNIQUE columns.

Columns ==
    [Roles |-> {"RoleID", "RoleName", "Description", "CreatedAt", "UpdatedAt"},
     Shifts |-> {"ShiftID", "RoleID", "Description", "StartTime", "EndTime",
                 "EmployeeID", "CreatedAt", "UpdatedAt"},
     Employees |-> {"EmployeeID", "Name", "Email", "RoleID", "CreatedAt",
                    "UpdatedAt"},
     EmployeeAvailability |-> {"AvailabilityID", "EmployeeID", "DayOfWeek",
                               "StartTime", "EndTime"},
     EmployeePreferences |-> {"PreferenceID", "EmployeeID", "ShiftPatternID",
                              "PreferenceLevel"}]

\* The schema without UNIQUE on Roles.RoleName.
UniqueColumnsWithoutRoleName ==
    [Roles |-> {},
     Shifts |-> {},
     Employees |-> {"Email"},
     EmployeeAvailability |-> {},
     EmployeePreferences |-> {}]

UniqueColumns ==
    [Roles |-> {"RoleName"},
     Shifts |-> {},
     Employees |-> {"Email"},
     EmployeeAvailability |-> {},
     EmployeePreferences |-> {}]

Tables == DOMAIN Columns

\* A statement naming a column the table does not have raises
\* sqlite3.OperationalError ("no such column").
StatementOK(table, cols) == cols \subseteq Columns[table]

---------------------------------------------------------------------------
\* Request bodies.

RoleNames == {<<" ">>, <<"a">>, <<" ", "a">>}
PersonNames == {<<>>, <<"J">>}
Emails ==
    {<<"a", "@", "b", ".", "c">>,
     <<"a", "@", "b", ".", "c", "@", "d">>,
     <<"a", "@", "b", "c">>}
Ids == {1}
OptIds == {None} \cup {Some(i) : i \in Ids}
StartDatetimes == {1, 2}
EndDatetimes == {2}
Days == {0, 7}
StartTimes == {<<9, 0>>, <<9, 1>>}
EndTimes == {<<17, 0>>}
PreferenceLevels == {1}

RoleBodies == [op : {"create_role"}, RoleName : RoleNames]

ShiftBodies ==
    [op : {"create_shift"}, RoleID : Ids, StartTime : StartDatetimes,
     EndTime : EndDatetimes, EmployeeID : OptIds]

EmployeeBodies ==
    [op : {"create_employee"}, Name : PersonNames, Email : Emails,
     RoleID : OptIds]

AvailabilityBodies ==
    [op : {"create_employee_availability"}, EmployeeID : Ids, DayOfWeek : Days,
     StartTime : StartTimes, EndTime : EndTimes]

PreferenceBodies ==
    [op : {"create_employee_preference"}, EmployeeID : Ids,
     AvailabilityID : OptIds, PreferenceLevel : PreferenceLevels]

ReadBodies ==
    [op : {"read_employee_availabilities", "read_employee_preferences"},
     employee_id : Ids]

CreateOps ==
    {"create_role", "create_shift", "create_employee",
     "create_employee_availability", "create_employee_preference"}

NoRequest == [op |-> "none"]
NoResponse == [status |-> 0, detail |-> "", ID |-> None, body |-> <<>>]

---------------------------------------------------------------------------
VARIABLES
    db,     \* the committed rows of the five tables; a row's id is its index
    pc,     \* where each worker is in its handler
    req,    \* the request body each worker is serving
    resp,   \* the response of each worker's request once it is done
    open    \* whether the connection of each worker's request is open

vars == <<db, pc, req, resp, open>>

\* The store after database.py has run: five empty tables.
Init ==
    /\ db = [t \in Tables |-> <<>>]
    /\ pc = [p \in Procs |-> "idle"]
    /\ req = [p \in Procs |-> NoRequest]
    /\ resp = [p \in Procs |-> NoResponse]
    /\ open = [p \in Procs |-> FALSE]

Free(p) == pc[p] \in {"idle", "done"}

InFlightCreates == {p \in Procs : ~Free(p) /\ req[p].op \in CreateOps}

TotalRows ==
    Len(db.Roles) + Len(db.Shifts) + Len(db.Employees)
        + Len(db.EmployeeAvailability) + Len(db.EmployeePreferences)

RoomForCreate == TotalRows + Cardinality(InFlightCreates) < MaxRows

\* SELECT * FROM table WHERE <id column> = id: ids are 1..Len, None matches
\* no row.
IdExists(table, id) == id \in 1..Len(db[table])
OptIdExists(table, oid) == \E i \in oid : IdExists(table, i)

\* Another connection holds the write lock: it has inserted and not yet
\* committed or rolled back.
LockedByOther(p) == \E q \in Procs \ {p} : pc[q] = "commit"

---------------------------------------------------------------------------
\* How a request ends, and how it moves on.

\* raise HTTPException(status_code=code, detail=detail); an exception that
\* no handler catches is answered 500 "Internal Server Error".  The finally
\* clause closes the connection.
Reply(p, code, detail) ==
    /\ pc' = [pc EXCEPT ![p] = "done"]
    /\ resp' = [resp EXCEPT ![p] =
            [status |-> code, detail |-> detail, ID |-> None, body |-> <<>>]]
    /\ open' = [open EXCEPT ![p] = FALSE]

\* The record is returned: 200.  conn.close() has run by then.
Return(p, id, body) ==
    /\ pc' = [pc EXCEPT ![p] = "done"]
    /\ resp' = [resp EXCEPT ![p] =
            [status |-> 200, detail |-> "", ID |-> id, body |-> body]]
    /\ open' = [open EXCEPT ![p] = FALSE]

\* The handler goes on to its next statement, its connection open.
Goto(p, label) ==
    /\ pc' = [pc EXCEPT ![p] = label]
    /\ resp' = [resp EXCEPT ![p] = NoResponse]
    /\ open' = [open EXCEPT ![p] = TRUE]

\* A request arrives and is handed to a free worker thread.  The threads are
\* interchangeable and keep nothing between requests, so it is always the
\* first free one.
Accept(p, body) ==
    /\ Free(p)
    /\ \A q \in Procs : q < p => ~Free(q)
    /\ req' = [req EXCEPT ![p] = body]

\* create_connection(): the handle, or None when sqlite3.connect raised.
ConnectionResults == {"conn", "None"}

\* if not conn: 500.
Connect(p, label) ==
    \E conn \in ConnectionResults :
        IF conn = "None"
        THEN Reply(p, 500, "Could not connect to the database.")
        ELSE Goto(p, label)

\* The handlers that do not look at the handle: conn.cursor() on None is an
\* AttributeError nobody catches.
ConnectUnchecked(p, label) ==
    \E conn \in ConnectionResults :
        IF conn = "None"
        THEN Reply(p, 500, "Internal Server Error")
        ELSE Goto(p, label)

---------------------------------------------------------------------------
\* The write path every create handler ends with.

TableOf(op) ==
    CASE op = "create_role" -> "Roles"
      [] op = "create_shift" -> "Shifts"
      [] op = "create_employee" -> "Employees"
      [] op = "create_employee_availability" -> "EmployeeAvailability"
      [] op = "create_employee_preference" -> "EmployeePreferences"

\* The columns the handler's INSERT names.
InsertColumns(op) ==
    CASE op = "create_role" -> {"RoleName", "Description"}
      [] op = "create_shift" ->
            {"RoleID", "Description", "StartTime", "EndTime", "EmployeeID"}
      [] op = "create_employee" -> {"Name", "Email", "RoleID"}
      [] op = "create_employee_availability" ->
            {"EmployeeID", "DayOfWeek", "StartTime", "EndTime"}
      [] op = "create_employee_preference" ->
            {"EmployeeID", "AvailabilityID", "PreferenceLevel"}

\* The values the handler's INSERT binds.
Row(r) ==
    CASE r.op = "create_role" -> [RoleName |-> r.RoleName]
      [] r.op = "create_shift" ->
            [RoleID |-> r.RoleID, StartTime |-> r.StartTime,
             EndTime |-> r.EndTime, EmployeeID |-> r.EmployeeID]
      [] r.op = "create_employee" ->
            [Name |-> r.Name, Email |-> r.Email, RoleID |-> r.RoleID]
      [] r.op = "create_employee_availability" ->
            [EmployeeID |-> r.EmployeeID, DayOfWeek |-> r.DayOfWeek,
             StartTime |-> strftime(r.StartTime),
             EndTime |-> strftime(r.EndTime)]
      [] r.op = "create_employee_preference" ->
            [EmployeeID |-> r.EmployeeID, AvailabilityID |-> r.AvailabilityID,
             PreferenceLevel |-> r.PreferenceLevel]

\* sqlite3.IntegrityError: a committed row has the new row's value in a
\* UNIQUE column.  (Foreign keys are declared but SQLite does not enforce
\* them on a connection that has not switched them on.)
ViolatesUnique(table, row) ==
    \E c \in UniqueColumns[table], i \in 1..Len(db[table]) :
        db[table][i][c] = row[c]

\* The store with p's inserted row published.
Inserted(p) ==
    [db EXCEPT ![TableOf(req[p].op)] = Append(@, Row(req[p]))]

\* The error handler commits the insert instead of rolling it back.
RollbackKeepsInsert(p) == IF pc[p] = "commit" THEN Inserted(p) ELSE db

\* except Error: conn.rollback() discards p's uncommitted insert.
Rollback(p) == db

\* cursor.execute("INSERT ..."): waits for the write lock, then the store
\* checks the statement against the schema.  A failure is an sqlite3.Error:
\* rollback, 400.
Insert(p) ==
    /\ pc[p] = "insert"
    /\ ~LockedByOther(p)
    /\ LET table == TableOf(req[p].op) IN
        IF ~StatementOK(table, InsertColumns(req[p].op))
        THEN db' = Rollback(p) /\ Reply(p, 400, "no such column")
        ELSE IF ViolatesUnique(table, Row(req[p]))
             THEN db' = Rollback(p) /\ Reply(p, 400, "UNIQUE constraint failed")
             ELSE UNCHANGED db /\ Goto(p, "commit")
    /\ UNCHANGED req

\* The write lock stays taken for longer than the connection's timeout:
\* sqlite3.OperationalError ("database is locked"), rollback, 400.
InsertBusy(p) ==
    /\ pc[p] = "insert"
    /\ LockedByOther(p)
    /\ db' = Rollback(p)
    /\ Reply(p, 400, "database is locked")
    /\ UNCHANGED req

\* conn.commit(), then the record gets cursor.lastrowid and is returned.
Commit(p) ==
    /\ pc[p] = "commit"
    /\ db' = Inserted(p)
    /\ Return(p, Some(Len(db[TableOf(req[p].op)]) + 1), <<>>)
    /\ UNCHANGED req

\* conn.commit() raises an sqlite3.Error: rollback, 400.
CommitError(p) ==
    /\ pc[p] = "commit"
    /\ db' = Rollback(p)
    /\ Reply(p, 400, "disk I/O error")
    /\ UNCHANGED req

---------------------------------------------------------------------------
\* POST /roles/add

create_role(p, role) ==
    /\ RoomForCreate
    /\ Accept(p, role)
    /\ IF strip(role.RoleName) = <<>>
       THEN Reply(p, 400, "Role name must not be empty.")
       ELSE Connect(p, "role_select")
    /\ UNCHANGED db

\* SELECT * FROM Roles WHERE RoleName = ?, with the name as it was sent.
create_role_select(p) ==
    /\ pc[p] = "role_select"
    /\ IF \E i \in 1..Len(db.Roles) : db.Roles[i].RoleName = req[p].RoleName
       THEN Reply(p, 400, "Role name already exists.")
       ELSE Goto(p, "insert")
    /\ UNCHANGED <<db, req>>

---------------------------------------------------------------------------
\* POST /shifts/add

create_shift(p, shift) ==
    /\ RoomForCreate
    /\ Accept(p, shift)
    /\ Connect(p, "shift_select_role")
    /\ UNCHANGED db

\* The comparison written with > : a shift of no duration passes.
ShiftValidateTimesStrict(p) ==
    IF req[p].StartTime > req[p].EndTime
    THEN Reply(p, 400, "Start time must be before end time.")
    ELSE Goto(p, "insert")

\* if shift.StartTime >= shift.EndTime: 400
ShiftValidateTimes(p) ==
    IF req[p].StartTime >= req[p].EndTime
    THEN Reply(p, 400, "Start time must be before end time.")
    ELSE Goto(p, "insert")

create_shift_select_role(p) ==
    /\ pc[p] = "shift_select_role"
    /\ IF ~IdExists("Roles", req[p].RoleID)
       THEN Reply(p, 400, "Role does not exist.")
       ELSE IF req[p].EmployeeID # None
            THEN Goto(p, "shift_select_employee")
            ELSE ShiftValidateTimes(p)
    /\ UNCHANGED <<db, req>>

\* The handler without its employee check.
create_shift_skip_employee(p) ==
    /\ pc[p] = "shift_select_employee"
    /\ ShiftValidateTimes(p)
    /\ UNCHANGED <<db, req>>

create_shift_select_employee(p) ==
    /\ pc[p] = "shift_select_employee"
    /\ IF ~OptIdExists("Employees", req[p].EmployeeID)
       THEN Reply(p, 400, "Employee does not exist.")
       ELSE ShiftValidateTimes(p)
    /\ UNCHANGED <<db, req>>

---------------------------------------------------------------------------
\* POST /employees/add

create_employee(p, employee) ==
    /\ RoomForCreate
    /\ Accept(p, employee)
    /\ IF employee.Name = <<>>
       THEN Reply(p, 400, "The name must not be empty.")
       ELSE IF ~EmailMatch(employee.Email)
            THEN Reply(p, 400, "Invalid email format.")
            ELSE Connect(p, "employee_select_email")
    /\ UNCHANGED db

create_employee_select_email(p) ==
    /\ pc[p] = "employee_select_email"
    /\ IF \E i \in 1..Len(db.Employees) : db.Employees[i].Email = req[p].Email
       THEN Reply(p, 400, "An employee with that email already exists.")
       ELSE IF req[p].RoleID # None
            THEN Goto(p, "employee_select_role")
            ELSE Goto(p, "insert")
    /\ UNCHANGED <<db, req>>

create_employee_select_role(p) ==
    /\ pc[p] = "employee_select_role"
    /\ IF ~OptIdExists("Roles", req[p].RoleID)
       THEN Reply(p, 400, "Role does not exist.")
       ELSE Goto(p, "insert")
    /\ UNCHANGED <<db, req>>

---------------------------------------------------------------------------
\* POST /availability/add

create_employee_availability(p, employee_availability) ==
    /\ RoomForCreate
    /\ Accept(p, employee_availability)
    /\ Connect(p, "availability_select_employee")
    /\ UNCHANGED db

create_employee_availability_select_employee(p) ==
    /\ pc[p] = "availability_select_employee"
    /\ IF ~IdExists("Employees", req[p].EmployeeID)
       THEN Reply(p, 400, "Employee does not exist.")
       ELSE Goto(p, "availability_select_existing")
    /\ UNCHANGED <<db, req>>

\* SELECT ... WHERE EmployeeID = ? AND DayOfWeek = ? AND StartTime = ? AND
\* EndTime = ?, with the times as strftime wrote them.
create_employee_availability_select_existing(p) ==
    /\ pc[p] = "availability_select_existing"
    /\ IF \E i \in 1..Len(db.EmployeeAvailability) :
            db.EmployeeAvailability[i] = Row(req[p])
       THEN Reply(p, 400, "An availability already exists.")
       ELSE Goto(p, "insert")
    /\ UNCHANGED <<db, req>>

---------------------------------------------------------------------------
\* POST /preferences/add

create_employee_preference(p, employee_preference) ==
    /\ RoomForCreate
    /\ Accept(p, employee_preference)
    /\ ConnectUnchecked(p, "preference_select_employee")
    /\ UNCHANGED db

create_employee_preference_select_employee(p) ==
    /\ pc[p] = "preference_select_employee"
    /\ IF ~IdExists("Employees", req[p].EmployeeID)
       THEN Reply(p, 400, "Employee does not exist.")
       ELSE Goto(p, "preference_select_availability")
    /\ UNCHANGED <<db, req>>

\* No availability row: logger.exception() is called without its message
\* argument, a TypeError that "except Error" does not catch: 500.
create_employee_preference_select_availability(p) ==
    /\ pc[p] = "preference_select_availability"
    /\ IF ~OptIdExists("EmployeeAvailability", req[p].AvailabilityID)
       THEN Reply(p, 500, "Internal Server Error")
       ELSE Goto(p, "preference_select_existing")
    /\ UNCHANGED <<db, req>>

\* SELECT * FROM EmployeePreferences WHERE EmployeeID = ? AND
\* AvailabilityID = ?
create_employee_preference_select_existing(p) ==
    /\ pc[p] = "preference_select_existing"
    /\ IF ~StatementOK("EmployeePreferences", {"EmployeeID", "AvailabilityID"})
       THEN db' = Rollback(p) /\ Reply(p, 400, "no such column")
       ELSE /\ UNCHANGED db
            /\ IF \E i \in 1..Len(db.EmployeePreferences) :
                    /\ db.EmployeePreferences[i].EmployeeID = req[p].EmployeeID
                    /\ db.EmployeePreferences[i].AvailabilityID
                            = req[p].AvailabilityID
               THEN Reply(p, 400, "A preference already exists.")
               ELSE Goto(p, "insert")
    /\ UNCHANGED req

---------------------------------------------------------------------------
\* GET /availability/get/{employee_id}, GET /preferences/get/{employee_id}

\* The fields each record model requires.
RequiredFields ==
    [read_employee_availabilities |->
        {"EmployeeID", "DayOfWeek", "StartTime", "EndTime"},
     read_employee_preferences |-> {"EmployeeID", "PreferenceLevel"}]

\* The keyword arguments the filtered read handlers build each record from.
Keywords ==
    [read_employee_availabilities |->
        {"id", "employee_id", "day_of_week", "start_time", "end_time"},
     read_employee_preferences |->
        {"id", "employee_id", "availability_id", "preference_level"}]

ReadTable(op) ==
    IF op = "read_employee_availabilities"
    THEN "EmployeeAvailability"
    ELSE "EmployeePreferences"

\* fetchall() of SELECT * FROM table WHERE EmployeeID = ?: the matching rows
\* with their ids, in id order.
SelectByEmployee(table, employee_id) ==
    LET all == [i \in 1..Len(db[table]) |-> [ID |-> i, row |-> db[table][i]]]
        Match(x) == x.row.EmployeeID = employee_id
    IN  SelectSeq(all, Match)

read_by_employee(p, read) ==
    /\ Accept(p, read)
    /\ ConnectUnchecked(p, "read_select")
    /\ UNCHANGED db

\* The query, conn.close(), then one record per row: a record built without
\* a required field raises a validation error nobody catches, a 500.
read_by_employee_select(p) ==
    /\ pc[p] = "read_select"
    /\ LET rows == SelectByEmployee(ReadTable(req[p].op), req[p].employee_id) IN
        IF rows # <<>> /\ ~(RequiredFields[req[p].op] \subseteq Keywords[req[p].op])
        THEN Reply(p, 500, "Internal Server Error")
        ELSE Return(p, None, rows)
    /\ UNCHANGED <<db, req>>

---------------------------------------------------------------------------
\* GET /roles/get, /shifts/get, /employees/get, /availability/get,
\* /preferences/get

ReadAllTable ==
    [read_roles |-> "Roles",
     read_shifts |-> "Shifts",
     read_employees |-> "Employees",
     read_all_employee_availabilities |-> "EmployeeAvailability",
     read_all_employee_preferences |-> "EmployeePreferences"]

ReadAllBodies == [op : DOMAIN ReadAllTable]

\* fetchall() of SELECT * FROM table: every row with its id, in id order.
SelectAll(table) ==
    [i \in 1..Len(db[table]) |-> [ID |-> i, row |-> db[table][i]]]

read_all(p, read) ==
    /\ Accept(p, read)
    /\ ConnectUnchecked(p, "read_all_select")
    /\ UNCHANGED db

\* The query, conn.close(), then one record per row, built with the fields'
\* own names.
read_all_select(p) ==
    /\ pc[p] = "read_all_select"
    /\ Return(p, None, SelectAll(ReadAllTable[req[p].op]))
    /\ UNCHANGED <<db, req>>

\* The query of a read handler raises an sqlite3.Error ("database is
\* locked": a writer keeps the store locked for longer than the connection's
\* timeout).  The read handlers have no try/finally: the exception leaves
\* the handler before conn.close(), and the answer is 500.
read_query_error(p) ==
    /\ pc[p] \in {"read_select", "read_all_select"}
    /\ LockedByOther(p)
    /\ pc' = [pc EXCEPT ![p] = "done"]
    /\ resp' = [resp EXCEPT ![p] =
            [status |-> 500, detail |-> "Internal Server Error",
             ID |-> None, body |-> <<>>]]
    /\ UNCHANGED <<db, req, open>>

---------------------------------------------------------------------------
Next ==
    \E p \in Procs :
        \/ \E b \in RoleBodies : create_role(p, b)
        \/ create_role_select(p)
        \/ \E b \in ShiftBodies : create_shift(p, b)
        \/ create_shift_select_role(p)
        \/ create_shift_select_employee(p)
        \/ \E b \in EmployeeBodies : create_employee(p, b)
        \/ create_employee_select_email(p)
        \/ create_employee_select_role(p)
        \/ \E b \in AvailabilityBodies : create_employee_availability(p, b)
        \/ create_employee_availability_select_employee(p)
        \/ create_employee_availability_select_existing(p)
        \/ \E b \in PreferenceBodies : create_employee_preference(p, b)
        \/ create_employee_preference_select_employee(p)
        \/ create_employee_preference_select_availability(p)
        \/ create_employee_preference_select_existing(p)
        \/ \E b \in ReadBodies : read_by_employee(p, b)
        \/ read_by_employee_select(p)
        \/ Insert(p)
        \/ InsertBusy(p)
        \/ Commit(p)
        \/ CommitError(p)

Spec == Init /\ [][Next]_vars

\* Every route, and the store failing a read handler's query.
NextAllRoutes ==
    \/ Next
    \/ \E p \in Procs :
        \/ \E b \in ReadAllBodies : read_all(p, b)
        \/ read_all_select(p)
        \/ read_query_error(p)

SpecAllRoutes == Init /\ [][NextAllRoutes]_vars

---------------------------------------------------------------------------
\* The claims.

Done(p, op) == pc[p] = "done" /\ req[p].op = op

RoleRows == 1..Len(db.Roles)
ShiftRows == 1..Len(db.Shifts)
EmployeeRows == 1..Len(db.Employees)
AvailabilityRows == 1..Len(db.EmployeeAvailability)
PreferenceRows == 1..Len(db.EmployeePreferences)

\* C1: of two create_role requests whose names are equal after trimming the
\* second fails with 400: no two stored roles have equal trimmed names, and a
\* request answered 200 is the only role with its trimmed name.
C1_TrimmedRoleNamesUnique ==
    /\ \A i, j \in RoleRows :
        i # j => strip(db.Roles[i].RoleName) # strip(db.Roles[j].RoleName)
    /\ \A p \in Procs :
        Done(p, "create_role") /\ resp[p].status = 200 =>
            \A i \in RoleRows \ resp[p].ID :
                strip(db.Roles[i].RoleName) # strip(req[p].RoleName)

\* C2: the store holds at most one availability record per
\* (employee_id, day_of_week, start_time, end_time).
C2_AvailabilityTupleUnique ==
    \A i, j \in AvailabilityRows :
        i # j => db.EmployeeAvailability[i] # db.EmployeeAvailability[j]

\* C3: when two create_role requests with the same name race past the
\* existence check, the UNIQUE constraint rejects the loser: the loser is
\* answered 400 and the winner's role is stored, two requests for one name
\* never both succeed, and at most one role has a given name.
C3_RaceLoserRejected ==
    /\ \A i, j \in RoleRows :
        i # j => db.Roles[i].RoleName # db.Roles[j].RoleName
    /\ \A p \in Procs :
        Done(p, "create_role") /\ resp[p].detail = "UNIQUE constraint failed" =>
            /\ resp[p].status = 400
            /\ \E i \in RoleRows : db.Roles[i].RoleName = req[p].RoleName
    /\ \A p, q \in Procs :
        /\ p # q
        /\ Done(p, "create_role") /\ Done(q, "create_role")
        /\ req[p].RoleName = req[q].RoleName
        => ~(resp[p].status = 200 /\ resp[q].status = 200)

\* Two requests for one name are done; one was answered 200 and the other
\* was rejected by the constraint.
C3_Witness ==
    \E p, q \in Procs :
        /\ p # q
        /\ Done(p, "create_role") /\ Done(q, "create_role")
        /\ req[p].RoleName = req[q].RoleName
        /\ resp[p].status = 200
        /\ resp[q].status = 400
        /\ resp[q].detail = "UNIQUE constraint failed"

\* C4: a step that answers a request with a non-2xx status leaves the five
\* tables as they are, and the tables change only in the step that answers a
\* create request with 200, by that request's one record.
C4_FailureLeavesStoreUnchanged ==
    [][/\ \A p \in Procs :
            resp'[p] # resp[p] /\ resp'[p].status \notin {0, 200} => db' = db
       /\ db' # db =>
            \E p \in Procs :
                /\ pc[p] = "commit" /\ req[p].op \in CreateOps
                /\ resp'[p].status = 200
                /\ db' = [db EXCEPT ![TableOf(req[p].op)] = Append(@, Row(req[p]))]
                /\ \A q \in Procs \ {p} : resp'[q] = resp[q]]_vars

\* A commit failed, was answered 400, and the store is still empty.
C4_Witness ==
    \E p \in Procs :
        /\ pc[p] = "done" /\ req[p].op \in CreateOps
        /\ resp[p].status = 400 /\ resp[p].detail = "disk I/O error"
        /\ TotalRows = 0

\* The faults of the store itself, which no precondition decides.
StorageFaults == {"database is locked", "disk I/O error"}

PreferenceStored(employee_id, availability_id) ==
    \E i \in PreferenceRows :
        /\ db.EmployeePreferences[i].EmployeeID = employee_id
        /\ db.EmployeePreferences[i].AvailabilityID = availability_id

\* C5: a create_preference request that has its connection and meets no
\* fault of the store is answered 400 when the employee is unknown, the
\* availability is unknown or the pair is stored, and otherwise 200 with the
\* record inserted and its id returned.
C5_PreferenceContract ==
    [][\A p \in Procs :
        /\ req[p].op = "create_employee_preference"
        /\ ~Free(p) /\ pc'[p] = "done"
        /\ resp'[p].detail \notin StorageFaults
        => IF \/ ~IdExists("Employees", req[p].EmployeeID)
              \/ ~OptIdExists("EmployeeAvailability", req[p].AvailabilityID)
              \/ PreferenceStored(req[p].EmployeeID, req[p].AvailabilityID)
           THEN resp'[p].status = 400 /\ db' = db
           ELSE /\ resp'[p].status = 200
                /\ db'.EmployeePreferences
                        = Append(db.EmployeePreferences, Row(req[p]))
                /\ resp'[p].ID = Some(Len(db'.EmployeePreferences))]_vars

\* C6: the filtered read handlers answer 200 with exactly the stored records
\* of the given employee, the empty sequence when there are none.
C6_FilteredReads ==
    [][\A p \in Procs :
        pc[p] = "read_select" /\ pc'[p] = "done" =>
            LET table == ReadTable(req[p].op)
                matching == {i \in 1..Len(db[table]) :
                                db[table][i].EmployeeID = req[p].employee_id}
            IN  /\ resp'[p].status = 200
                /\ Len(resp'[p].body) = Cardinality(matching)
                /\ {resp'[p].body[k] : k \in 1..Len(resp'[p].body)}
                        = {[ID |-> i, row |-> db[table][i]] : i \in matching}]_vars

\* local@domain.tld: one "@", something before it, a "." after it.
LocalAtDomainTld(s) ==
    /\ Cardinality({k \in 1..Len(s) : s[k] = "@"}) = 1
    /\ \E k \in 2..Len(s) :
        /\ s[k] = "@"
        /\ \E j \in (k + 1)..Len(s) : s[j] = "."

\* C7: create_employee answers 400 to every email that is not of the shape
\* local@domain.tld (500 when it gets no connection), and no stored employee
\* has such an email.
C7_EmailShape ==
    /\ \A i \in EmployeeRows : LocalAtDomainTld(db.Employees[i].Email)
    /\ \A p \in Procs :
        Done(p, "create_employee") /\ ~LocalAtDomainTld(req[p].Email) =>
            \/ resp[p].status = 400
            \/ /\ resp[p].status = 500
               /\ resp[p].detail = "Could not connect to the database."

\* C8: a create_shift request with start_time >= end_time that has its
\* connection is answered 400 (without one, 500 as every handler), whatever
\* its role_id and employee_id, and every stored shift has
\* start_time < end_time.
C8_ShiftTimesOrdered ==
    /\ \A i \in ShiftRows : db.Shifts[i].StartTime < db.Shifts[i].EndTime
    /\ \A p \in Procs :
        Done(p, "create_shift") /\ req[p].StartTime >= req[p].EndTime =>
            \/ resp[p].status = 400
            \/ /\ resp[p].status = 500
               /\ resp[p].detail = "Could not connect to the database."

\* A shift with start_time >= end_time whose role and employee both exist
\* was answered 400 for its times.
C8_Witness ==
    \E p \in Procs :
        /\ Done(p, "create_shift")
        /\ req[p].StartTime >= req[p].EndTime
        /\ IdExists("Roles", req[p].RoleID)
        /\ req[p].EmployeeID # None
        /\ OptIdExists("Employees", req[p].EmployeeID)
        /\ resp[p].status = 400
        /\ resp[p].detail = "Start time must be before end time."

\* C9: every stored shift's role and (if set) employee exist, every stored
\* employee's role (if set) exists, every stored availability's employee
\* exists, every stored preference's employee and availability exist.
C9_ReferentialIntegrity ==
    /\ \A i \in ShiftRows :
        /\ IdExists("Roles", db.Shifts[i].RoleID)
        /\ db.Shifts[i].EmployeeID # None =>
                OptIdExists("Employees", db.Shifts[i].EmployeeID)
    /\ \A i \in EmployeeRows :
        db.Employees[i].RoleID # None =>
            OptIdExists("Roles", db.Employees[i].RoleID)
    /\ \A i \in AvailabilityRows :
        IdExists("Employees", db.EmployeeAvailability[i].EmployeeID)
    /\ \A i \in PreferenceRows :
        /\ IdExists("Employees", db.EmployeePreferences[i].EmployeeID)
        /\ OptIdExists("EmployeeAvailability",
                       db.EmployeePreferences[i].AvailabilityID)

\* A shift is stored whose employee is set, and that employee's role is set.
C9_Witness ==
    \E i \in ShiftRows :
        /\ db.Shifts[i].EmployeeID # None
        /\ \E e \in db.Shifts[i].EmployeeID :
            e \in EmployeeRows /\ db.Employees[e].RoleID # None

\* C10: every stored availability has day_of_week in 0..6.
C10_DayOfWeekInRange ==
    \A i \in AvailabilityRows : db.EmployeeAvailability[i].DayOfWeek \in 0..6

\* C11: no request is done with the connection its handler obtained still
\* open, whichever handler served it and however it ended.
C11_ConnectionsClosed ==
    \A p \in Procs : pc[p] = "done" => ~open[p]

====
